---------------------------- MODULE Spec2Model ----------------------------
(***************************************************************************)
(* PERM processing-time calculator backend: the refresh pipeline           *)
(* (scraper.update_perm_data, run by the scheduler and by /update-data),    *)
(* the estimator (utils.calculate_approval_date behind /calculate) and the *)
(* extractor (scraper.scrape_perm_data).                                    *)
(*                                                                         *)
(* Text that the program parses or formats is a sequence of tokens: one    *)
(* character per token, except that a word of letters ("Average", "days",  *)
(* a month name) is a single token; a phrase is a sequence of them.        *)
(* average_days is a Python float; here it is a fixed-point number counted *)
(* in units of 1/Scale day.                                                *)
(***************************************************************************)
EXTENDS Integers, Sequences, FiniteSets, TLC

(***************************************************************************)
(* Calendar arithmetic of datetime (proleptic Gregorian ordinals).         *)
(***************************************************************************)
Digits == <<"0", "1", "2", "3", "4", "5", "6", "7", "8", "9">>

DigitSet == {Digits[i] : i \in 1..10}

IsDigit(c) == c \in DigitSet

DigitVal(c) == CHOOSE k \in 0..9 : Digits[k + 1] = c

MINYEAR == 1

MAXYEAR == 9999

IsLeap(y) == (y % 4 = 0) /\ ((y % 100 # 0) \/ (y % 400 = 0))

DaysInMonthTable == <<31, 28, 31, 30, 31, 30, 31, 31, 30, 31, 30, 31>>

DaysInMonth(y, m) == IF m = 2 /\ IsLeap(y) THEN 29 ELSE DaysInMonthTable[m]

DaysBeforeMonthTable == <<0, 31, 59, 90, 120, 151, 181, 212, 243, 273, 304, 334>>

DaysBeforeYear(y) ==
    (y - 1) * 365 + ((y - 1) \div 4) - ((y - 1) \div 100) + ((y - 1) \div 400)

DaysBeforeMonth(y, m) ==
    DaysBeforeMonthTable[m] + (IF m > 2 /\ IsLeap(y) THEN 1 ELSE 0)

\* date.toordinal(): 0001-01-01 is day 1.
Ymd2Ord(y, m, d) == DaysBeforeYear(y) + DaysBeforeMonth(y, m) + d

MaxOrdinal == Ymd2Ord(MAXYEAR, 12, 31)

\* date.fromordinal(), as datetime's _ord2ymd computes it.
Ord2Ymd(ord) ==
    LET n0   == ord - 1
        n400 == n0 \div 146097
        r400 == n0 % 146097
        n100 == r400 \div 36524
        r100 == r400 % 36524
        n4   == r100 \div 1461
        r4   == r100 % 1461
        n1   == r4 \div 365
        n    == r4 % 365
        year == n400 * 400 + 1 + n100 * 100 + n4 * 4 + n1
        leap == (n1 = 3) /\ ((n4 # 24) \/ (n100 = 3))
        m0   == (n + 50) \div 32
        p0   == DaysBeforeMonthTable[m0] + (IF m0 > 2 /\ leap THEN 1 ELSE 0)
        month == IF p0 > n THEN m0 - 1 ELSE m0
        prec  == IF p0 > n
                 THEN p0 - (DaysInMonthTable[m0 - 1]
                            + (IF m0 - 1 = 2 /\ leap THEN 1 ELSE 0))
                 ELSE p0
    IN  IF n1 = 4 \/ n100 = 4
        THEN [y |-> year - 1, m |-> 12, d |-> 31]
        ELSE [y |-> year, m |-> month, d |-> n - prec + 1]

(***************************************************************************)
(* datetime.strptime(s, "%Y-%m-%d") and strftime("%Y-%m-%d").              *)
(***************************************************************************)
Invalid == [err |-> "ValueError"]

At(s, i) == IF i \in 1..Len(s) THEN s[i] ELSE "<end>"

\* %m: 1[0-2] | 0[1-9] | [1-9]; the alternative taken is the first after
\* which the literal "-" follows. 0 when none matches.
MonthLen(s, p) ==
    IF At(s, p) = "1" /\ At(s, p + 1) \in {"0", "1", "2"} /\ At(s, p + 2) = "-"
    THEN 2
    ELSE IF At(s, p) = "0" /\ IsDigit(At(s, p + 1)) /\ At(s, p + 1) # "0"
            /\ At(s, p + 2) = "-"
    THEN 2
    ELSE IF IsDigit(At(s, p)) /\ At(s, p) # "0" /\ At(s, p + 1) = "-"
    THEN 1
    ELSE 0

\* %d: 3[0-1] | [1-2]\d | 0[1-9] | [1-9] | " "[1-9]; the first alternative
\* that matches is taken (the pattern ends here). 0 when none matches.
DayLen(s, p) ==
    IF At(s, p) = "3" /\ At(s, p + 1) \in {"0", "1"} THEN 2
    ELSE IF At(s, p) \in {"1", "2"} /\ IsDigit(At(s, p + 1)) THEN 2
    ELSE IF At(s, p) = "0" /\ IsDigit(At(s, p + 1)) /\ At(s, p + 1) # "0" THEN 2
    ELSE IF IsDigit(At(s, p)) /\ At(s, p) # "0" THEN 1
    ELSE IF At(s, p) = " " /\ IsDigit(At(s, p + 1)) /\ At(s, p + 1) # "0" THEN 2
    ELSE 0

\* int() of the matched group: digits, a leading blank ignored.
RECURSIVE IntOf(_)
IntOf(s) ==
    IF s = <<>> THEN 0
    ELSE IF s[Len(s)] = " " THEN IntOf(SubSeq(s, 1, Len(s) - 1))
    ELSE IntOf(SubSeq(s, 1, Len(s) - 1)) * 10 + DigitVal(s[Len(s)])

\* The parsed date, or Invalid where strptime raises ValueError: no match,
\* unconverted data after the match, or a date that does not exist.
Strptime(s) ==
    IF ~(\A i \in 1..4 : IsDigit(At(s, i))) \/ At(s, 5) # "-" THEN Invalid
    ELSE
    LET ml == MonthLen(s, 6)
        dp == 6 + ml + 1
        dl == DayLen(s, dp)
    IN  IF ml = 0 \/ dl = 0 THEN Invalid
        ELSE IF dp + dl - 1 # Len(s) THEN Invalid
        ELSE
        LET y == IntOf(SubSeq(s, 1, 4))
            m == IntOf(SubSeq(s, 6, 5 + ml))
            d == IntOf(SubSeq(s, dp, dp + dl - 1))
        IN  IF y < MINYEAR \/ d > DaysInMonth(y, m) THEN Invalid
            ELSE [y |-> y, m |-> m, d |-> d]

Pad2(k) == <<Digits[(k \div 10) + 1], Digits[(k % 10) + 1]>>

Pad4(k) == Pad2(k \div 100) \o Pad2(k % 100)

\* strftime("%Y-%m-%d") of a date with a four-digit year.
Strftime(dt) == Pad4(dt.y) \o <<"-">> \o Pad2(dt.m) \o <<"-">> \o Pad2(dt.d)

(***************************************************************************)
(* Text helpers.                                                           *)
(***************************************************************************)
Punct == {" ", ".", ",", ":", "-", "/"}

\* \w of the regular expressions: a word or a digit.
IsWordTok(t) == t \notin Punct

Lower(t) ==
    CASE t = "Average" -> "average"
      [] t = "Number" -> "number"
      [] t = "Days" -> "days"
      [] t = "Day" -> "day"
      [] t = "Analyst" -> "analyst"
      [] t = "Review" -> "review"
      [] t = "Priority" -> "priority"
      [] t = "Date" -> "date"
      [] OTHER -> t

LowerText(text) == [i \in 1..Len(text) |-> Lower(text[i])]

\* Python's "phrase in text".
Contains(text, phrase) ==
    \E i \in 1..(Len(text) - Len(phrase) + 1) :
        SubSeq(text, i, i + Len(phrase) - 1) = phrase

DaysPhrase == <<"Average", " ", "Number", " ", "of", " ", "Days">>

PrioPhrase == <<"Analyst", " ", "Review", " ", "Priority", " ", "Date">>

\* get_text(strip=True) of an element holding one string.
RECURSIVE Strip(_)
Strip(text) ==
    IF text = <<>> THEN text
    ELSE IF Head(text) = " " THEN Strip(Tail(text))
    ELSE IF text[Len(text)] = " " THEN Strip(SubSeq(text, 1, Len(text) - 1))
    ELSE text

\* re.sub(r'[^\d.]', '', value): a word holds no digit and no period.
RECURSIVE KeepNumeric(_)
KeepNumeric(text) ==
    IF text = <<>> THEN <<>>
    ELSE IF IsDigit(Head(text)) \/ Head(text) = "."
         THEN <<Head(text)>> \o KeepNumeric(Tail(text))
         ELSE KeepNumeric(Tail(text))

\* The decimal places of average_days the model keeps.
FracDigits == 3

Scale == 10 ^ FracDigits

\* The digits of s, a sequence of digits, read as a fraction in 1/Scale.
FracOf(s) ==
    IntOf([i \in 1..FracDigits |-> IF i <= Len(s) THEN s[i] ELSE "0"])

\* float(s) for s of digits and periods: [ok, v]; ok is FALSE where float
\* raises ValueError (no digit, or more than one period).
ParseFloat(s) ==
    LET dots == {i \in 1..Len(s) : s[i] = "."}
    IN  IF Cardinality(dots) > 1 \/ Len(s) - Cardinality(dots) = 0
        THEN [ok |-> FALSE, v |-> 0]
        ELSE IF dots = {}
        THEN [ok |-> TRUE, v |-> IntOf(s) * Scale]
        ELSE LET k == CHOOSE i \in dots : TRUE
             IN  [ok |-> TRUE,
                  v |-> IntOf(SubSeq(s, 1, k - 1)) * Scale
                        + FracOf(SubSeq(s, k + 1, Len(s)))]

RECURSIVE DigitsOf(_)
DigitsOf(n) ==
    IF n < 10 THEN <<Digits[n + 1]>>
    ELSE DigitsOf(n \div 10) \o <<Digits[(n % 10) + 1]>>

RECURSIVE DropZeros(_)
DropZeros(s) ==
    IF Len(s) > 1 /\ s[Len(s)] = "0" THEN DropZeros(SubSeq(s, 1, Len(s) - 1))
    ELSE s

\* str(v) of a float: the whole part, a period, and the decimal places
\* without trailing zeros, one at least ("180.0", "180.5").
StrFloat(v) ==
    DigitsOf(v \div Scale) \o <<".">>
    \o DropZeros([i \in 1..FracDigits |->
                     Digits[(((v % Scale) \div (10 ^ (FracDigits - i))) % 10) + 1]])

\* The end of the longest run of digits starting at i (i - 1 when none).
RECURSIVE DigitsEnd(_, _)
DigitsEnd(text, i) ==
    IF IsDigit(At(text, i)) THEN DigitsEnd(text, i + 1) ELSE i - 1

RECURSIVE SpacesEnd(_, _)
SpacesEnd(text, i) ==
    IF At(text, i) = " " THEN SpacesEnd(text, i + 1) ELSE i - 1

\* days? under re.I, at the start of a token.
IsDayWord(t) == Lower(t) \in {"day", "days"}

\* (\d+(?:\.\d+)?)\s*days? matched at position i: the end of group 1, or 0.
NumberDaysAt(text, i) ==
    LET e1 == DigitsEnd(text, i)
        e2 == IF At(text, e1 + 1) = "." THEN DigitsEnd(text, e1 + 2) ELSE 0
    IN  IF e1 < i THEN 0
        ELSE IF e2 >= e1 + 2 /\ IsDayWord(At(text, SpacesEnd(text, e2 + 1) + 1))
        THEN e2
        ELSE IF IsDayWord(At(text, SpacesEnd(text, e1 + 1) + 1))
        THEN e1
        ELSE 0

\* re.search of the days pattern: group 1 of the leftmost match, or <<>>.
DaysMatch(text) ==
    LET starts == {i \in 1..Len(text) : NumberDaysAt(text, i) > 0}
    IN  IF starts = {} THEN <<>>
        ELSE LET i == CHOOSE j \in starts : \A k \in starts : j <= k
             IN  SubSeq(text, i, NumberDaysAt(text, i))

RECURSIVE WordEnd(_, _)
WordEnd(text, i) ==
    IF i <= Len(text) /\ IsWordTok(text[i]) THEN WordEnd(text, i + 1) ELSE i - 1

\* (\w+\s+\d{1,2},?\s+\d{4}) matched with \w+ ending at e (a token before a
\* blank): the end of the match, or 0. \d{4} takes four digits and the match
\* ends there.
DateTailEnd(text, e) ==
    LET s1 == SpacesEnd(text, e + 1)
        dE == DigitsEnd(text, s1 + 1)
        \* \d{1,2} is followed by a non-digit: the run is one or two digits
        Rest(d) ==
            LET c  == IF At(text, d + 1) = "," THEN d + 1 ELSE d
                s2 == SpacesEnd(text, c + 1)
            IN  IF s2 > c /\ DigitsEnd(text, s2 + 1) >= s2 + 4 THEN s2 + 4 ELSE 0
    IN  IF s1 <= e THEN 0
        ELSE IF dE = s1 + 1 \/ dE = s1 + 2 THEN Rest(dE)
        ELSE 0

\* re.search of the date pattern: group 1 of the leftmost match, or <<>>.
DateMatch(text) ==
    LET starts == {i \in 1..Len(text) :
                      /\ IsWordTok(text[i])
                      /\ DateTailEnd(text, WordEnd(text, i)) > 0}
    IN  IF starts = {} THEN <<>>
        ELSE LET i == CHOOSE j \in starts : \A k \in starts : j <= k
             IN  SubSeq(text, i, DateTailEnd(text, WordEnd(text, i)))

(***************************************************************************)
(* The extractor, scraper.py.  A page is what requests and BeautifulSoup   *)
(* give: status ("ok", or "error" for a RequestException), hasTable and    *)
(* rows (the first table's rows, each a sequence of cell texts), and       *)
(* sections (the strings of the div, section and p elements).              *)
(***************************************************************************)
NoneData == [ok |-> FALSE]

EmptyDict == [hasAvg |-> FALSE, avg |-> 0, hasPrio |-> FALSE, prio |-> <<>>]

\* A variant that gives up only when both fields are missing.
FinishEitherField(data) ==
    IF ~data.hasAvg /\ ~data.hasPrio THEN NoneData
    ELSE [ok |-> TRUE, average_days |-> data.avg, priority_date |-> data.prio]

\* "if 'average_days' not in data or 'priority_date' not in data: return None"
Finish(data) ==
    IF ~data.hasAvg \/ ~data.hasPrio THEN NoneData
    ELSE [ok |-> TRUE, average_days |-> data.avg, priority_date |-> data.prio]

\* One iteration of the loop over the table rows.
TableRow(data, cells) ==
    IF Len(cells) < 2 THEN data
    ELSE
    LET key   == Strip(cells[1])
        value == Strip(cells[2])
        f     == ParseFloat(KeepNumeric(value))
    IN  IF Contains(key, DaysPhrase)
        THEN [data EXCEPT !.hasAvg = TRUE, !.avg = IF f.ok THEN f.v ELSE 0]
        ELSE IF Contains(key, PrioPhrase)
        THEN [data EXCEPT !.hasPrio = TRUE, !.prio = value]
        ELSE data

RECURSIVE TableLoop(_, _)
TableLoop(data, rows) ==
    IF rows = <<>> THEN data
    ELSE TableLoop(TableRow(data, Head(rows)), Tail(rows))

\* find_all(['div', 'section', 'p'], string=re.compile(..., re.I))
FindSections(sections) ==
    SelectSeq(sections,
              LAMBDA t : \/ Contains(LowerText(t), LowerText(DaysPhrase))
                         \/ Contains(LowerText(t), LowerText(PrioPhrase)))

\* One iteration of the loop over the sections.
SectionStep(data, section) ==
    LET text == Strip(section)
        dm   == DaysMatch(text)
        pm   == DateMatch(text)
        d1   == IF Contains(text, DaysPhrase) /\ dm # <<>>
                THEN [data EXCEPT !.hasAvg = TRUE, !.avg = ParseFloat(dm).v]
                ELSE data
    IN  IF Contains(text, PrioPhrase) /\ pm # <<>>
        THEN [d1 EXCEPT !.hasPrio = TRUE, !.prio = pm]
        ELSE d1

RECURSIVE SectionLoop(_, _)
SectionLoop(data, sections) ==
    IF sections = <<>> THEN data
    ELSE SectionLoop(SectionStep(data, Head(sections)), Tail(sections))

scrape_alternative_method(sections) ==
    Finish(SectionLoop(EmptyDict, FindSections(sections)))

scrape_perm_data(pg) ==
    IF pg.status # "ok" THEN NoneData
    ELSE IF ~pg.hasTable THEN scrape_alternative_method(pg.sections)
    ELSE Finish(TableLoop(EmptyDict, pg.rows))

(***************************************************************************)
(* The estimator, utils.py.                                                *)
(***************************************************************************)
NoRow == [id |-> 0]

validate_date_format(date_string) == Strptime(date_string) # Invalid

\* order_by(last_updated.desc()).first(): a row none is newer than.
LatestRows(rows) ==
    {r \in rows : \A q \in rows : q.last_updated.t <= r.last_updated.t}

\* timedelta(days=average_days): the whole days of the offset; the rest of
\* it is a time of day, which "%Y-%m-%d" does not show.
TimedeltaDays(average_days) == average_days \div Scale

\* The dictionary calculate_approval_date returns for the row the query
\* gave (NoRow for none); kind "OverflowError" where the sum leaves the
\* range of datetime and the addition raises.
calculate_approval_date(filing_date, latest_data) ==
    LET filing_dt == Strptime(filing_date)
    IN  IF filing_dt = Invalid THEN [kind |-> "error", error |-> "InvalidDateFormat"]
        ELSE IF latest_data = NoRow THEN [kind |-> "error", error |-> "NoDataAvailable"]
        ELSE
        LET ord == Ymd2Ord(filing_dt.y, filing_dt.m, filing_dt.d)
                   + TimedeltaDays(latest_data.average_days)
        IN  IF ord < 1 \/ ord > MaxOrdinal THEN [kind |-> "OverflowError"]
            ELSE [kind |-> "ok",
                  estimated_approval_date |-> Strftime(Ord2Ymd(ord)),
                  average_processing_days |-> StrFloat(latest_data.average_days),
                  last_updated |-> Strftime(Ord2Ymd(latest_data.last_updated.date)),
                  priority_date |-> latest_data.priority_date]

\* A variant that answers an empty table with a record of zeros.
CurrentDataOrZeros(latest_data) ==
    IF latest_data = NoRow
    THEN [kind |-> "ok", average_processing_days |-> <<"0", ".", "0">>,
          priority_date |-> <<>>, last_updated |-> <<>>]
    ELSE [kind |-> "ok",
          average_processing_days |-> StrFloat(latest_data.average_days),
          priority_date |-> latest_data.priority_date,
          last_updated |-> Strftime(Ord2Ymd(latest_data.last_updated.date))]

get_current_processing_data(latest_data) ==
    IF latest_data = NoRow THEN [kind |-> "error", error |-> "NoDataAvailable"]
    ELSE [kind |-> "ok",
          average_processing_days |-> StrFloat(latest_data.average_days),
          priority_date |-> latest_data.priority_date,
          last_updated |-> Strftime(Ord2Ymd(latest_data.last_updated.date))]

(***************************************************************************)
(* The refresh coordinator's fallback record.                              *)
(***************************************************************************)
MonthNames == <<"January", "February", "March", "April", "May", "June", "July",
                "August", "September", "October", "November", "December">>

\* strftime('%B %d, %Y')
StrftimeLong(dt) ==
    <<MonthNames[dt.m], " ">> \o Pad2(dt.d) \o <<",", " ">> \o Pad4(dt.y)

FallbackDays == 180 * Scale

FallbackData(day) ==
    [ok |-> TRUE, average_days |-> FallbackDays,
     priority_date |-> StrftimeLong(Ord2Ymd(day))]

(***************************************************************************)
(* Inputs: pages the source URL may serve, and filing-date strings.        *)
(***************************************************************************)
Days180 == <<"1", "8", "0", " ", "days">>

Days200 == <<"2", "0", "0", ".", "5", " ", "days">>

DaysNA == <<"approx", ".", " ", "N", "/", "A", " ", "days">>

March15 == <<"March", " ", "1", "5", ",", " ", "2", "0", "2", "4">>

April01 == <<"April", " ", "0", "1", ",", " ", "2", "0", "2", "4">>

TablePage(rows) ==
    [status |-> "ok", hasTable |-> TRUE, rows |-> rows, sections |-> <<>>]

TextPage(sections) ==
    [status |-> "ok", hasTable |-> FALSE, rows |-> <<>>, sections |-> sections]

DownPage == [status |-> "error", hasTable |-> FALSE, rows |-> <<>>, sections |-> <<>>]

GoodA == TablePage(<< <<DaysPhrase, Days180>>, <<PrioPhrase, March15>> >>)

BrokenPage == TablePage(<< <<DaysPhrase, Days180>> >>)

\* The pages the source serves over a run of the whole system.
Pages == {GoodA, BrokenPage}

RowKinds ==
    { <<DaysPhrase, Days180>>,
      <<DaysPhrase \o <<":">>, <<" ">> \o Days200 \o <<" ">> >>,
      <<DaysPhrase, DaysNA>>,
      <<PrioPhrase, March15>>,
      <<PrioPhrase, <<>> >>,
      <<DaysPhrase>>,
      <<LowerText(DaysPhrase), Days180>>,
      << <<"Form">>, <<"PERM">> >> }

SectionKinds ==
    { DaysPhrase \o <<":", " ">> \o Days180,
      DaysPhrase \o <<":", " ", "1", "8", "0">>,
      DaysPhrase \o <<":", " ">> \o DaysNA,
      <<" ">> \o PrioPhrase \o <<":", " ">> \o March15,
      PrioPhrase \o <<":", " ", "pending">>,
      DaysPhrase \o <<":", " ">> \o Days200 \o <<" ">> \o PrioPhrase
          \o <<" ">> \o April01,
      LowerText(DaysPhrase) \o <<":", " ">> \o Days180,
      <<"PERM">> }

MaxRows == 3

MaxSections == 2

SeqsUpTo(S, n) == UNION {[1..k -> S] : k \in 0..n}

\* The pages the extractor is tried on.
AllPages ==
    {TablePage(rows) : rows \in SeqsUpTo(RowKinds, MaxRows)}
    \cup {TextPage(secs) : secs \in SeqsUpTo(SectionKinds, MaxSections)}
    \cup {DownPage}

YearParts == { <<"2", "0", "2", "3">>, <<"2", "0", "2", "4">>,
               <<"9", "9", "9", "9">>, <<"2", "4">> }

MonthParts == { <<"0", "1">>, <<"1">>, <<"0", "2">>, <<"2">>, <<"0", "6">>,
                <<"1", "2">>, <<"1", "3">> }

DayParts == { <<"0", "1">>, <<"1">>, <<" ", "1">>, <<"2", "8">>, <<"2", "9">>,
              <<"3", "0">>, <<"3", "1">>, <<"4", "0">> }

Separators == {"-", "/"}

\* The filing-date strings the estimator is tried on.
FilingInputs ==
    { y \o <<p>> \o m \o <<p>> \o d :
        y \in YearParts, m \in MonthParts, d \in DayParts, p \in Separators }
    \cup { <<>>,
           <<"0", "1", "/", "0", "1", "/", "2", "0", "2", "4">>,
           <<"2", "0", "2", "4", "-", "0", "1", "-", "0", "1", "1">>,
           <<"2", "0", "2", "4", "-", "0", "1", "-", "0", "1", " ">>,
           <<"0", "0", "0", "0", "-", "0", "1", "-", "0", "1">> }

\* A row of perm_processing_times.
Row(id, average_days, priority_date, date, t) ==
    [id |-> id, average_days |-> average_days, priority_date |-> priority_date,
     last_updated |-> [date |-> date, t |-> t]]

\* The local date the process starts on.
StartDay == Ymd2Ord(2024, 2, 28)

OldRow1 == Row(1, 150 * Scale, March15, StartDay - 2, 1)

OldRow2 == Row(2, 165 * Scale + 500, April01, StartDay - 1, 2)

\* What the table may hold when the process starts.
InitStores == { {}, {OldRow1}, {OldRow1, OldRow2} }

AvgSamples == {0, 1 * Scale, 180 * Scale, 180 * Scale + 500, 180 * Scale + 999,
               365 * Scale, 366 * Scale + 1}

\* What the table may hold when the estimator is tried.
EstimateStores ==
    { {} } \cup { {Row(1, a, March15, StartDay, 1)} : a \in AvgSamples }
    \cup { {Row(1, 150 * Scale, March15, StartDay - 1, 1),
            Row(2, 180 * Scale + 500, April01, StartDay, 2)} }

(***************************************************************************)
(* State.                                                                  *)
(***************************************************************************)
VARIABLES
    store,      \* the committed rows of perm_processing_times
    nextId,     \* the next primary key
    clock,      \* datetime.utcnow(), as a counter
    today,      \* datetime.now().date(), as an ordinal
    pc,         \* where each refresh is in update_perm_data
    sess,       \* each refresh's session and locals
    running,    \* the scheduler is started and not shut down
    nextRun,    \* the day the job next fires
    calls,      \* refreshes started so far
    resp,       \* the response of the request last answered
    hist        \* history: what the refreshes so far have done

vars == <<store, nextId, clock, today, pc, sess, running, nextRun, calls,
          resp, hist>>

Sessions == {"scheduled", "manual"}

NoPage == [status |-> "none"]

NoResp == [op |-> "none"]

\* A session that is not open, and the locals of no call.
IdleSess ==
    [open |-> FALSE, src |-> NoPage, day |-> 0, scraped |-> NoneData,
     extracted |-> FALSE, pendDel |-> {}, new |-> NoRow, ret |-> FALSE,
     errAt |-> "none", before |-> {}, idAt |-> 0]

NoHist ==
    [attempted |-> FALSE, succeeded |-> FALSE, lastBy |-> "none",
     lastRow |-> NoRow, lastSrc |-> NoPage, lastExtracted |-> FALSE,
     lastDay |-> 0, repeat |-> FALSE]

IntervalDays == 1

MaxDays == 2

MaxCalls == 2

InitCommon ==
    /\ nextId = 3
    /\ clock = 3
    /\ today = StartDay
    /\ pc = [s \in Sessions |-> "idle"]
    /\ sess = [s \in Sessions |-> IdleSess]
    /\ running = TRUE
    /\ nextRun = StartDay + IntervalDays
    /\ calls = 0
    /\ resp = NoResp
    /\ hist = NoHist

Init ==
    /\ InitCommon
    /\ store \in InitStores

(***************************************************************************)
(* The store's transactions (read-committed): a statement sees the rows    *)
(* committed when it runs, and a commit applies the session's deletes and  *)
(* its insert at once.                                                     *)
(***************************************************************************)
VisibleIds(committed) == {r.id : r \in committed}

ApplyCommit(committed, pendDel, newRow) ==
    {r \in committed : r.id \notin pendDel} \cup {newRow}

(***************************************************************************)
(* update_perm_data, for the session s of its caller.                      *)
(***************************************************************************)
\* A variant that stores the fallback record whatever the scrape gave.
AlwaysFallback(pg, day) == FallbackData(day)

\* scrape_perm_data(url) on the page pg the source serves at that moment,
\* and the fallback data if it gave None.
ScrapedOrFallback(pg, day) ==
    LET scraped_data == scrape_perm_data(pg)
    IN  IF ~scraped_data.ok THEN FallbackData(day) ELSE scraped_data

\* The call begins on a session just opened: the scrape.
BeginCall(s, pg) ==
    /\ pc[s] = "idle"
    /\ calls < MaxCalls
    /\ calls' = calls + 1
    /\ sess' = [sess EXCEPT ![s] =
                   [IdleSess EXCEPT !.open = TRUE,
                                    !.src = pg,
                                    !.day = today,
                                    !.extracted = scrape_perm_data(pg).ok,
                                    !.scraped = ScrapedOrFallback(pg, today),
                                    !.before = store,
                                    !.idAt = nextId]]
    /\ pc' = [pc EXCEPT ![s] = "scraped"]

\* new_record = PermProcessingTime(average_days=..., priority_date=...,
\* last_updated=datetime.utcnow()); its id is given at the INSERT.
NewRecord(scraped_data, date, t) ==
    Row(0, scraped_data.average_days, scraped_data.priority_date, date, t)

\* A variant whose DELETE is committed as it runs.
DeleteAutocommit(s) ==
    /\ pc[s] = "scraped"
    /\ store' = {}
    /\ sess' = [sess EXCEPT ![s].pendDel = {},
                            ![s].new = NewRecord(sess[s].scraped, today, clock)]
    /\ clock' = clock + 1
    /\ pc' = [pc EXCEPT ![s] = "added"]
    /\ UNCHANGED <<nextId, today, running, nextRun, calls, resp, hist>>

\* db_session.query(PermProcessingTime).delete(), then the new record is
\* built and added to the session.
DeleteAndAdd(s) ==
    /\ pc[s] = "scraped"
    /\ sess' = [sess EXCEPT ![s].pendDel = VisibleIds(store),
                            ![s].new = NewRecord(sess[s].scraped, today, clock)]
    /\ clock' = clock + 1
    /\ pc' = [pc EXCEPT ![s] = "added"]
    /\ UNCHANGED <<store, nextId, today, running, nextRun, calls, resp, hist>>

\* except Exception: db_session.rollback(); return False
RolledBack(locals, at) ==
    [locals EXCEPT !.pendDel = {}, !.new = NoRow, !.ret = FALSE, !.errAt = at]

\* The DELETE raises.
DeleteFails(s) ==
    /\ pc[s] = "scraped"
    /\ sess' = [sess EXCEPT ![s] = RolledBack(sess[s], "delete")]
    /\ hist' = [hist EXCEPT !.attempted = TRUE]
    /\ pc' = [pc EXCEPT ![s] = "returned"]
    /\ UNCHANGED <<store, nextId, clock, today, running, nextRun, calls, resp>>

\* A variant whose commit applies the DELETE and loses the INSERT.
CommitLosesInsert(s) ==
    /\ pc[s] = "added"
    /\ LET row == [sess[s].new EXCEPT !.id = nextId]
       IN  /\ store' = {r \in store : r.id \notin sess[s].pendDel}
           /\ hist' = [attempted |-> TRUE, succeeded |-> TRUE, lastBy |-> s,
                       lastRow |-> row, lastSrc |-> sess[s].src,
                       lastExtracted |-> sess[s].extracted,
                       lastDay |-> sess[s].day,
                       repeat |-> /\ hist.succeeded
                                  /\ nextId = sess[s].idAt
                                  /\ hist.lastSrc = sess[s].src]
    /\ nextId' = nextId + 1
    /\ sess' = [sess EXCEPT ![s].pendDel = {}, ![s].new = NoRow, ![s].ret = TRUE]
    /\ pc' = [pc EXCEPT ![s] = "returned"]
    /\ UNCHANGED <<clock, today, running, nextRun, calls, resp>>

\* db_session.commit() flushes the INSERT and commits; return True.
CommitOK(s) ==
    /\ pc[s] = "added"
    /\ LET row == [sess[s].new EXCEPT !.id = nextId]
       IN  /\ store' = ApplyCommit(store, sess[s].pendDel, row)
           /\ hist' = [attempted |-> TRUE, succeeded |-> TRUE, lastBy |-> s,
                       lastRow |-> row, lastSrc |-> sess[s].src,
                       lastExtracted |-> sess[s].extracted,
                       lastDay |-> sess[s].day,
                       repeat |-> /\ hist.succeeded
                                  /\ nextId = sess[s].idAt
                                  /\ hist.lastSrc = sess[s].src]
    /\ nextId' = nextId + 1
    /\ sess' = [sess EXCEPT ![s].pendDel = {}, ![s].new = NoRow, ![s].ret = TRUE]
    /\ pc' = [pc EXCEPT ![s] = "returned"]
    /\ UNCHANGED <<clock, today, running, nextRun, calls, resp>>

\* The INSERT or the COMMIT raises.
CommitFails(s) ==
    /\ pc[s] = "added"
    /\ \E at \in {"insert", "commit"} :
           sess' = [sess EXCEPT ![s] = RolledBack(sess[s], at)]
    /\ hist' = [hist EXCEPT !.attempted = TRUE]
    /\ pc' = [pc EXCEPT ![s] = "returned"]
    /\ UNCHANGED <<store, nextId, clock, today, running, nextRun, calls, resp>>

\* A statement raises and db_session.rollback() raises in its turn: the
\* exception leaves update_perm_data; nothing is committed.
RollbackRaises(s) ==
    /\ pc[s] \in {"scraped", "added"}
    /\ sess' = [sess EXCEPT ![s].errAt = "rollback"]
    /\ pc' = [pc EXCEPT ![s] = "raised"]
    /\ UNCHANGED <<store, nextId, clock, today, running, nextRun, calls, resp,
                   hist>>

(***************************************************************************)
(* The callers of update_perm_data, main.py.                               *)
(***************************************************************************)
\* The scheduler fires the job: db = SessionLocal(), then the call.
Tick ==
    /\ running
    /\ today >= nextRun
    /\ \E pg \in Pages : BeginCall("scheduled", pg)
    /\ nextRun' = today + IntervalDays
    /\ UNCHANGED <<store, nextId, clock, today, running, resp, hist>>

\* A variant in which a failed refresh stops the scheduler.
SchedFinishStopsOnFailure ==
    /\ pc["scheduled"] \in {"returned", "raised"}
    /\ sess' = [sess EXCEPT !["scheduled"] = IdleSess]
    /\ pc' = [pc EXCEPT !["scheduled"] = "idle"]
    /\ running' = (running /\ pc["scheduled"] = "returned"
                            /\ sess["scheduled"].ret)
    /\ UNCHANGED <<store, nextId, clock, today, nextRun, calls, resp, hist>>

\* The job after the call: log the outcome, or the exception the call
\* raised; finally db.close().
SchedFinish ==
    /\ pc["scheduled"] \in {"returned", "raised"}
    /\ sess' = [sess EXCEPT !["scheduled"] = IdleSess]
    /\ pc' = [pc EXCEPT !["scheduled"] = "idle"]
    /\ UNCHANGED <<store, nextId, clock, today, running, nextRun, calls,
                   resp, hist>>

\* POST /update-data, while the application serves: get_db() opens the
\* session, then the call.
UpdateRequest ==
    /\ running
    /\ \E pg \in Pages : BeginCall("manual", pg)
    /\ UNCHANGED <<store, nextId, clock, today, running, nextRun, resp, hist>>

\* update_data after the call: the response (500 as well for an exception
\* that leaves the handler); get_db() closes the session.
UpdateFinish ==
    /\ pc["manual"] \in {"returned", "raised"}
    /\ resp' = IF pc["manual"] = "returned" /\ sess["manual"].ret
               THEN [op |-> "update", status |-> 200]
               ELSE [op |-> "update", status |-> 500]
    /\ sess' = [sess EXCEPT !["manual"] = IdleSess]
    /\ pc' = [pc EXCEPT !["manual"] = "idle"]
    /\ UNCHANGED <<store, nextId, clock, today, running, nextRun, calls, hist>>

\* The query of both read handlers: the newest row, NoRow for an empty table.
QueryLatest(rows) == IF rows = {} THEN {NoRow} ELSE LatestRows(rows)

\* The response of POST /calculate when the query, if made, gives latest.
CalculateResponse(filing_date, latest) ==
    IF ~validate_date_format(filing_date)
    THEN [op |-> "calculate", input |-> filing_date, status |-> 400,
          error |-> "InvalidDateFormat", queried |-> FALSE]
    ELSE LET result == calculate_approval_date(filing_date, latest)
         IN  IF result.kind = "OverflowError"
             THEN [op |-> "calculate", input |-> filing_date, status |-> 500,
                   error |-> "OverflowError", queried |-> TRUE]
             ELSE IF result.kind = "error"
             THEN [op |-> "calculate", input |-> filing_date, status |-> 404,
                   error |-> result.error, queried |-> TRUE]
             ELSE [op |-> "calculate", input |-> filing_date, status |-> 200,
                   error |-> "none", queried |-> TRUE, body |-> result]

\* The response of GET /current-data when the query gives latest.
CurrentDataResponse(latest) ==
    LET result == get_current_processing_data(latest)
    IN  IF result.kind = "error"
        THEN [op |-> "current", status |-> 404, error |-> result.error]
        ELSE [op |-> "current", status |-> 200, error |-> "none",
              body |-> result]

\* POST /calculate
calculate_perm_processing_time(filing_date) ==
    /\ resp = NoResp
    /\ \E latest \in QueryLatest(store) :
          resp' = CalculateResponse(filing_date, latest)
    /\ UNCHANGED <<store, nextId, clock, today, pc, sess, running, nextRun,
                   calls, hist>>

\* GET /current-data
get_current_data ==
    /\ resp = NoResp
    /\ \E latest \in QueryLatest(store) : resp' = CurrentDataResponse(latest)
    /\ UNCHANGED <<store, nextId, clock, today, pc, sess, running, nextRun,
                   calls, hist>>

\* The response has gone to the client.
Respond ==
    /\ resp # NoResp
    /\ resp' = NoResp
    /\ UNCHANGED <<store, nextId, clock, today, pc, sess, running, nextRun,
                   calls, hist>>

\* shutdown_event: scheduler.shutdown()
Shutdown ==
    /\ running
    /\ running' = FALSE
    /\ UNCHANGED <<store, nextId, clock, today, pc, sess, nextRun, calls,
                   resp, hist>>

\* The environment: midnight passes.
AdvanceDay ==
    /\ today < StartDay + MaxDays
    /\ today' = today + 1
    /\ UNCHANGED <<store, nextId, clock, pc, sess, running, nextRun, calls,
                   resp, hist>>

(***************************************************************************)
(* The whole system: the scheduler, manual refreshes, and the requests     *)
(* that read.                                                              *)
(***************************************************************************)
Next ==
    \/ Tick
    \/ UpdateRequest
    \/ \E s \in Sessions :
          \/ DeleteAndAdd(s)
          \/ DeleteFails(s)
          \/ CommitOK(s)
          \/ CommitFails(s)
          \/ RollbackRaises(s)
    \/ SchedFinish
    \/ UpdateFinish
    \/ Shutdown
    \/ AdvanceDay

Spec == Init /\ [][Next]_vars

(***************************************************************************)
(* The estimator alone, on every filing-date string and table content.     *)
(***************************************************************************)
InitEstimate ==
    /\ InitCommon
    /\ store \in EstimateStores

NextEstimate ==
    \/ \E fd \in FilingInputs : calculate_perm_processing_time(fd)
    \/ get_current_data
    \/ Respond

SpecEstimate == InitEstimate /\ [][NextEstimate]_vars

(***************************************************************************)
(* The extractor alone, on every page.                                     *)
(***************************************************************************)
InitExtract ==
    /\ InitCommon
    /\ store = {}

\* POST /update-data as far as the scrape, whatever page the source serves.
ExtractRequest ==
    /\ \E pg \in AllPages : BeginCall("manual", pg)
    /\ UNCHANGED <<store, nextId, clock, today, running, nextRun, resp, hist>>

NextExtract == ExtractRequest

SpecExtract == InitExtract /\ [][NextExtract]_vars


(***************************************************************************)
(* What the claims speak of, stated apart from the program's own way of    *)
(* computing it.                                                           *)
(***************************************************************************)
\* s is a date written YYYY-MM-DD exactly: ten characters, zero-padded, a
\* date of the calendar.
IsYMDExact(s) ==
    /\ Len(s) = 10
    /\ \A i \in {1, 2, 3, 4, 6, 7, 9, 10} : IsDigit(s[i])
    /\ s[5] = "-" /\ s[8] = "-"
    /\ LET y == IntOf(SubSeq(s, 1, 4))
           m == IntOf(SubSeq(s, 6, 7))
           d == IntOf(SubSeq(s, 9, 10))
       IN  y >= 1 /\ m \in 1..12 /\ d \in 1..DaysInMonth(y, m)

DecodeExact(s) ==
    [y |-> IntOf(SubSeq(s, 1, 4)), m |-> IntOf(SubSeq(s, 6, 7)),
     d |-> IntOf(SubSeq(s, 9, 10))]

\* The first day of the month after dt's.
NextMonth(dt) ==
    IF dt.m < 12 THEN [y |-> dt.y, m |-> dt.m + 1, d |-> 1]
    ELSE [y |-> dt.y + 1, m |-> 1, d |-> 1]

\* The date k calendar days after dt, counted along the calendar month by
\* month.
RECURSIVE DaysAfter(_, _)
DaysAfter(dt, k) ==
    LET left == DaysInMonth(dt.y, dt.m) - dt.d
    IN  IF k <= left THEN [dt EXCEPT !.d = dt.d + k]
        ELSE DaysAfter(NextMonth(dt), k - left - 1)

\* The step in which session s's call of update_perm_data returns.
Returns(s) == pc[s] # "returned" /\ pc'[s] = "returned"

\* What the call of session s is to store: the extractor's output on the
\* page it fetched, or the fallback values on the day it ran.
ExpectedData(s) ==
    LET out == scrape_perm_data(sess[s].src)
    IN  IF out.ok
        THEN [average_days |-> out.average_days,
              priority_date |-> out.priority_date]
        ELSE [average_days |-> 180 * Scale,
              priority_date |-> StrftimeLong(Ord2Ymd(sess[s].day))]

\* C1: whenever update_perm_data returns true, the table holds exactly one
\* row, and its average_days and priority_date are the extractor's output
\* for that call, or 180.0 and that day's date as "Month DD, YYYY" when the
\* extractor failed; whatever the table held before.
C1_OneRecordAfterRefresh ==
    [][\A s \in Sessions :
          (Returns(s) /\ sess'[s].ret) =>
              \E r \in store' :
                  /\ store' = {r}
                  /\ r.average_days = ExpectedData(s).average_days
                  /\ r.priority_date = ExpectedData(s).priority_date]_vars

Jan01 == <<"2", "0", "2", "4", "-", "0", "1", "-", "0", "1">>

\* No read of the table in this state answers NoDataAvailable.
ReadsFindRecord ==
    /\ store # {}
    /\ \A latest \in QueryLatest(store) :
          /\ get_current_processing_data(latest).kind = "ok"
          /\ calculate_approval_date(Jan01, latest).kind = "ok"

\* C3, as claimed: once any call of update_perm_data has returned, whatever
\* its outcome, every later read finds a record.
C3_NeverEmptyAfterAttempt == hist.attempted => ReadsFindRecord

\* C3, amended: once a call of update_perm_data has returned true, every
\* later calculate with a valid date and every later getCurrentData finds a
\* record.
C3_NeverEmptyAfterSuccess == hist.succeeded => ReadsFindRecord

\* A refresh that began after a successful one has failed.
C3_Witness ==
    /\ hist.succeeded
    /\ \E s \in Sessions :
          /\ pc[s] = "returned" /\ ~sess[s].ret
          /\ hist.lastRow \in sess[s].before

\* C4: for every interleaving of a scheduled and a manual refresh, once
\* both have finished the table holds at most one row, the record of the
\* refresh that committed last.
C4_LastWriteWins ==
    (hist.succeeded /\ \A s \in Sessions : pc[s] \in {"idle", "returned", "raised"})
        => store = {hist.lastRow}

\* C5: for every filing-date string that is not YYYY-MM-DD exactly,
\* non-zero-padded forms included, calculate fails with InvalidDateFormat
\* (400) without reading the table.
C5_RejectsInexactDates ==
    (resp.op = "calculate" /\ ~IsYMDExact(resp.input)) =>
        /\ resp.status = 400
        /\ resp.error = "InvalidDateFormat"
        /\ ~resp.queried

\* The step in which a request that reads is answered.
Answered(op) == resp = NoResp /\ resp' # NoResp /\ resp'.op = op

\* C6: when the table holds no row, getCurrentData fails with
\* NoDataAvailable, calculate with any valid YYYY-MM-DD date fails with
\* NoDataAvailable (404), neither returns a result, neither changes the
\* table.
C6_EmptyStoreNoData ==
    [][/\ (Answered("current") /\ store = {}) =>
              /\ resp'.status = 404 /\ resp'.error = "NoDataAvailable"
              /\ "body" \notin DOMAIN resp'
              /\ store' = store
       /\ (Answered("calculate") /\ store = {} /\ IsYMDExact(resp'.input)) =>
              /\ resp'.status = 404 /\ resp'.error = "NoDataAvailable"
              /\ "body" \notin DOMAIN resp'
              /\ store' = store]_vars

C6_Witness ==
    /\ store = {}
    /\ resp.op = "calculate" /\ IsYMDExact(resp.input) /\ resp.status = 404

\* The estimate the claim C7 promises for the answered request: the date
\* floor(averageDays) calendar days after the filing date, as YYYY-MM-DD.
EstimateIsExact ==
    \E latest \in LatestRows(store) :
        /\ resp.status = 200
        /\ IsYMDExact(resp.body.estimated_approval_date)
        /\ DecodeExact(resp.body.estimated_approval_date)
             = DaysAfter(DecodeExact(resp.input), latest.average_days \div Scale)

\* The estimate would lie after 9999-12-31.
EstimateOutOfRange ==
    \E latest \in LatestRows(store) :
        DaysAfter(DecodeExact(resp.input), latest.average_days \div Scale).y
            > MAXYEAR

\* C7, as claimed: for all valid YYYY-MM-DD filing dates d and every stored
\* averageDays n, calculate returns the date exactly floor(n) calendar days
\* after d, formatted YYYY-MM-DD.
C7_EstimateAlways ==
    (resp.op = "calculate" /\ IsYMDExact(resp.input) /\ store # {})
        => EstimateIsExact

\* C7, amended: calculate returns that date whenever it is not after
\* 9999-12-31; when it is, calculate raises OverflowError and returns no
\* estimate.
C7_EstimateInRange ==
    (resp.op = "calculate" /\ IsYMDExact(resp.input) /\ store # {})
        => IF EstimateOutOfRange
           THEN resp.status = 500 /\ resp.error = "OverflowError"
           ELSE EstimateIsExact

\* A fractional average is cut to its whole days: 180.5 days after
\* 2024-01-01 is 2024-06-29.
EstimateTruncates ==
    /\ resp.op = "calculate" /\ resp.status = 200
    /\ resp.input = <<"2", "0", "2", "4", "-", "0", "1", "-", "0", "1">>
    /\ \E r \in store : r.average_days = 180 * Scale + 500
    /\ resp.body.estimated_approval_date
         = <<"2", "0", "2", "4", "-", "0", "6", "-", "2", "9">>

\* The step in which session s commits a refresh that follows, with nothing
\* committed in between, a successful refresh that saw the same source.
RepeatsLast(s) ==
    /\ Returns(s) /\ sess'[s].ret
    /\ hist.succeeded
    /\ nextId = sess[s].idAt
    /\ hist.lastSrc = sess[s].src

\* C8, as claimed: two successive successful refreshes with identical
\* source content, content on which extraction fails included, leave the
\* stored average_days and priority_date unchanged.
C8_Idempotent ==
    [][\A s \in Sessions :
          RepeatsLast(s) =>
              /\ hist'.lastRow.average_days = hist.lastRow.average_days
              /\ hist'.lastRow.priority_date = hist.lastRow.priority_date
              /\ hist'.lastRow \in store']_vars

\* C8, amended: average_days is unchanged; priority_date is unchanged when
\* extraction succeeded, or failed both times on the same local date.
C8_IdempotentSameDay ==
    [][\A s \in Sessions :
          RepeatsLast(s) =>
              /\ hist'.lastRow.average_days = hist.lastRow.average_days
              /\ (sess[s].extracted \/ sess[s].day = hist.lastDay) =>
                     hist'.lastRow.priority_date = hist.lastRow.priority_date
              /\ hist'.lastRow \in store']_vars

C8_Witness ==
    /\ hist.repeat /\ ~hist.lastExtracted
    /\ hist.lastRow \in store
    /\ hist.lastRow.last_updated.date = hist.lastDay

\* What the first table of a page shows, row by row.
DaysRows(pg) ==
    {i \in 1..Len(pg.rows) :
        Len(pg.rows[i]) >= 2 /\ Contains(Strip(pg.rows[i][1]), DaysPhrase)}

PrioRows(pg) ==
    {i \in 1..Len(pg.rows) :
        /\ Len(pg.rows[i]) >= 2
        /\ ~Contains(Strip(pg.rows[i][1]), DaysPhrase)
        /\ Contains(Strip(pg.rows[i][1]), PrioPhrase)}

Last(S) == CHOOSE i \in S : \A j \in S : j <= i

\* The digits and periods of a text make a number.
IsNumberText(text) ==
    LET k == KeepNumeric(text)
    IN  /\ Cardinality({i \in 1..Len(k) : k[i] = "."}) <= 1
        /\ \E i \in 1..Len(k) : IsDigit(k[i])

\* What the free text of a page shows.
DaysSections(pg) ==
    {i \in 1..Len(pg.sections) :
        /\ Contains(Strip(pg.sections[i]), DaysPhrase)
        /\ DaysMatch(Strip(pg.sections[i])) # <<>>}

PrioSections(pg) ==
    {i \in 1..Len(pg.sections) :
        /\ Contains(Strip(pg.sections[i]), PrioPhrase)
        /\ DateMatch(Strip(pg.sections[i])) # <<>>}

\* C9: in the table strategy and in the free-text strategy alike, a page
\* that yields only one of the two fields yields None, never partial data;
\* in the table strategy a days row (the last, if several) whose value is
\* no number gives average_days = 0.0, and the extraction succeeds when a
\* priority-date row is present.
C9_BothFieldsRequired ==
    pc["manual"] = "scraped" =>
        LET pg  == sess["manual"].src
            out == scrape_perm_data(pg)
        IN  /\ sess["manual"].extracted = out.ok
            /\ out.ok => DOMAIN out = {"ok", "average_days", "priority_date"}
            /\ ~out.ok => out = NoneData
            /\ pg.status # "ok" => ~out.ok
            /\ (pg.status = "ok" /\ pg.hasTable) =>
                  /\ out.ok <=> (DaysRows(pg) # {} /\ PrioRows(pg) # {})
                  /\ (out.ok /\ ~IsNumberText(pg.rows[Last(DaysRows(pg))][2]))
                        => out.average_days = 0
                  /\ out.ok =>
                        out.priority_date = Strip(pg.rows[Last(PrioRows(pg))][2])
            /\ (pg.status = "ok" /\ ~pg.hasTable) =>
                  (out.ok <=> (DaysSections(pg) # {} /\ PrioSections(pg) # {}))

C9_Witness ==
    /\ pc["manual"] = "scraped"
    /\ sess["manual"].src = TablePage(<< <<DaysPhrase, DaysNA>>,
                                         <<PrioPhrase, March15>> >>)
    /\ sess["manual"].extracted
    /\ sess["manual"].scraped.average_days = 0

\* The scheduled call of update_perm_data has ended, by a return or by an
\* exception.
JobCallEnded == pc["scheduled"] \in {"returned", "raised"}

RunsAgainAfterRaise ==
    /\ pc["scheduled"] = "scraped" /\ calls = 2
    /\ ~hist.attempted
    /\ pc["manual"] = "idle" /\ resp = NoResp

=============================================================================
